---- MODULE Spec2Model ----
(***************************************************************************)
(* A model of the S3VectorsQuery client (src/S3VectorsQuery.py) and of its *)
(* driver (src/run.py).  The client is a sequential program: every public  *)
(* method is one atomic step that issues blocking calls to two remote      *)
(* services (the embedding endpoint and the vector storage service) and    *)
(* prints diagnostics.  The model records, for the most recent method       *)
(* call, its arguments, the remote calls it issued in order together with  *)
(* their responses, the lines it printed, its return value and whether an  *)
(* exception left it.  The remote services are the environment: whether a  *)
(* call succeeds and what a query returns is chosen nondeterministically.  *)
(***************************************************************************)
EXTENDS Integers, Sequences, FiniteSets, TLC

(* ------------------------------ bounds -------------------------------- *)

\* Longest product list handed to insert_vectors.
MaxProducts == 2
\* Number of clients constructed in one run.
MaxClients == 2
\* Largest top_k / max_results a caller asks for.
MaxTopK == 2
\* Longest id list handed to get_vectors_by_ids.
MaxKeys == 2

(* ------------------------- program constants --------------------------- *)

EMBEDDING_MODEL == "amazon.titan-embed-text-v2:0"
INDEX_NAME == "product-embeddings"
VECTOR_BUCKET_NAME == "s3vectors-query-bucket"
\* dimension=1024 in the create_index request.
Dimension == 1024

(* ------------------------------- values -------------------------------- *)

\* Python's None.
None == [kind |-> "none"]
\* A Python list value.
List(items) == [kind |-> "list", items |-> items]

\* Sequences over S of length at most n.
SeqUpTo(S, n) == UNION {[1..k -> S] : k \in 0..n}

\* Sequences over S, of any length up to Cardinality(S), without repetition.
DistinctSeqs(S) ==
    {s \in SeqUpTo(S, Cardinality(S)) :
        \A i, j \in 1..Len(s) : i # j => s[i] # s[j]}

\* s back to front.
Reverse(s) == [i \in 1..Len(s) |-> s[Len(s) + 1 - i]]

\* The first n elements of s (all of s when it is shorter).
Take(s, n) == SubSeq(s, 1, IF Len(s) < n THEN Len(s) ELSE n)

\* `marker in str(e)`: the message of an exception is a sequence of tokens.
Contains(msg, marker) == \E i \in 1..Len(msg) : msg[i] = marker

(* The sample products of run.py. *)
Meta1 == [category |-> "electronics", price_range |-> "high", brand |-> "TechCorp"]
Meta2 == [category |-> "clothing", price_range |-> "medium", brand |-> "EcoWear"]
Product1 == [id |-> "prod-001", text |-> "Wireless Bluetooth headphones", metadata |-> Meta1]
Product2 == [id |-> "prod-002", text |-> "Organic cotton t-shirt", metadata |-> Meta2]
Products == {Product1, Product2}
Ids == {p.id : p \in Products}
Metas == {p.metadata : p \in Products}

\* Texts a caller embeds through query and update_vector_by_id.
QueryTexts == {"premium product", "quality product"}
UpdateTexts == {"Wireless headphones, second edition"}

\* An absent bucket_name argument (None, the default): falsy, like "".
NoName == ""
\* bucket_name arguments of the constructor.
BucketArgs == {NoName, VECTOR_BUCKET_NAME}

(* ------------------------- filter expressions --------------------------- *)

\* A filter is None or a dict; a dict is a sequence of entries.  An entry is a
\* field comparison or a combinator ("$and" / "$or") over child dicts.
Dict(entries) == [kind |-> "dict", entries |-> entries]
Leaf(field, op, value) ==
    [key |-> field, op |-> op, value |-> value, children |-> <<>>]
Comb(key, children) ==
    [key |-> key, op |-> "", value |-> "", children |-> children]

CategoryIs(c) == Dict(<<Leaf("category", "$eq", c)>>)
\* {} : an empty filter tree.
empty_filter == Dict(<<>>)
multi_category_filter ==
    Dict(<<Comb("$or", <<CategoryIs("electronics"), CategoryIs("accessories")>>)>>)
not_low_price_filter == Dict(<<Leaf("price_range", "$ne", "low")>>)
complex_filter ==
    Dict(<<Comb("$or",
            <<Dict(<<Comb("$and",
                      <<CategoryIs("electronics"),
                        Dict(<<Leaf("price_range", "$eq", "high")>>)>>)>>),
              Dict(<<Leaf("brand", "$eq", "TechCorp")>>)>>)>>)
\* {"$or": []} and {"$or": [{"$and": []}, {"brand": "TechCorp"}]}.
childless_or_filter == Dict(<<Comb("$or", <<>>)>>)
nested_childless_filter ==
    Dict(<<Comb("$or",
            <<Dict(<<Comb("$and", <<>>)>>),
              Dict(<<Leaf("brand", "$eq", "TechCorp")>>)>>)>>)

\* The filters argument of query: Optional[Dict].
Filters ==
    {None, empty_filter, multi_category_filter, childless_or_filter,
     nested_childless_filter}

\* Python truthiness of an Optional[Dict]: None and {} are falsy.
Truthy(d) == d.kind = "dict" /\ Len(d.entries) > 0

(* --------------------------- remote services ---------------------------- *)

\* A response of a remote call: ok with a body, or an exception with a message.
Ok(body) == [ok |-> TRUE, err |-> <<>>, body |-> body]
Fail(msg) == [ok |-> FALSE, err |-> msg, body |-> None]

\* A remote call as the client sees it.
Call(op, req, resp) == [op |-> op, req |-> req, resp |-> resp]

\* The vector the embedding model computes for a text (1024 floats, abstracted).
EmbeddingOf(text) == [of |-> text, dim |-> Dimension]

\* bedrock.invoke_model: the body carries the embedding, or the call raises.
invoke_model(req, up) ==
    IF up THEN Ok([embedding |-> EmbeddingOf(req.inputText)])
    ELSE Fail(<<"ProviderError">>)

\* s3vectors.create_vector_bucket against a service where the bucket exists or not.
create_vector_bucket(req, remote, up) ==
    IF ~up THEN Fail(<<"ServiceUnavailable">>)
    ELSE IF remote.bucket THEN Fail(<<"ConflictException", "BucketAlreadyExists">>)
    ELSE Ok([vectorBucketArn |-> req.vectorBucketName])

\* s3vectors.create_index.
create_index(req, remote, up) ==
    IF ~up THEN Fail(<<"ServiceUnavailable">>)
    ELSE IF ~remote.bucket THEN Fail(<<"NotFoundException">>)
    ELSE IF remote.index THEN Fail(<<"ConflictException", "IndexAlreadyExists">>)
    ELSE Ok([indexArn |-> req.indexName])

\* s3vectors.put_vectors.
put_vectors(req, remote, up) ==
    IF ~up THEN Fail(<<"ServiceUnavailable">>)
    ELSE IF ~remote.index THEN Fail(<<"NotFoundException">>)
    ELSE Ok([ResponseMetadata |-> [RequestId |-> "req"]])

\* An optional boolean flag of a request: absent means false.
Wants(req, flag) == flag \in DOMAIN req /\ req[flag]

\* s3vectors.get_vectors: the stored records among the requested keys, in
\* request order; metadata only when the request asks for it.
RECURSIVE StoredAmong(_, _, _)
StoredAmong(keys, store, withMetadata) ==
    IF keys = <<>> THEN <<>>
    ELSE LET k == Head(keys)
             rest == StoredAmong(Tail(keys), store, withMetadata)
         IN IF store[k] # None
            THEN <<[key |-> k,
                    metadata |-> IF withMetadata THEN store[k].metadata ELSE None]>>
                 \o rest
            ELSE rest

get_vectors(req, remote, up) ==
    IF ~up THEN Fail(<<"ServiceUnavailable">>)
    ELSE IF ~remote.index THEN Fail(<<"NotFoundException">>)
    ELSE Ok([vectors |-> StoredAmong(req.keys, remote.store, Wants(req, "returnMetadata"))])

\* s3vectors.list_vectors: at most maxResults stored keys, in the service's order.
list_vectors(req, remote, up, order) ==
    IF ~up THEN Fail(<<"ServiceUnavailable">>)
    ELSE IF ~remote.index THEN Fail(<<"NotFoundException">>)
    ELSE Ok([vectors |->
               Take(StoredAmong(order, remote.store, FALSE), req.maxResults)])

\* s3vectors.query_vectors: at most topK stored records in the service's ranking,
\* each with its metadata and its distance (ascending along the ranking).
Ranked(vs) ==
    [i \in 1..Len(vs) |->
        [key |-> vs[i].key, metadata |-> vs[i].metadata, distance |-> i]]

query_vectors(req, remote, up, order) ==
    IF ~up THEN Fail(<<"ServiceUnavailable">>)
    ELSE IF ~remote.index THEN Fail(<<"NotFoundException">>)
    ELSE Ok([vectors |->
               Ranked(Take(StoredAmong(order, remote.store, Wants(req, "returnMetadata")),
                           req.topK))])

(* ------------------------------ the client ------------------------------ *)

\* What a method call leaves behind: the remote calls it issued, the lines it
\* printed, its return value, whether an exception left it, and (insert_vectors)
\* the final value of vectors_to_insert.
Result(calls, log, ret, raised) ==
    [calls |-> calls, log |-> log, ret |-> ret, raised |-> raised, batch |-> <<>>]

\* As create_s3vectors_bucket, but an error other than "already exists" is
\* raised again instead of being printed.
create_s3vectors_bucket_reraising(bucket_name, remote, up) ==
    LET req == [vectorBucketName |-> bucket_name]
        resp == create_vector_bucket(req, remote, up)
        calls == <<Call("create_vector_bucket", req, resp)>>
    IN IF resp.ok
       THEN Result(calls, <<"Created vector bucket", "Bucket ARN">>, None, FALSE)
       ELSE IF Contains(resp.err, "BucketAlreadyExists")
       THEN Result(calls, <<"Vector bucket already exists">>, None, FALSE)
       ELSE Result(calls, <<>>, None, TRUE)

create_s3vectors_bucket(bucket_name, remote, up) ==
    LET req == [vectorBucketName |-> bucket_name]
        resp == create_vector_bucket(req, remote, up)
        calls == <<Call("create_vector_bucket", req, resp)>>
    IN IF resp.ok
       THEN Result(calls, <<"Created vector bucket", "Bucket ARN">>, None, FALSE)
       ELSE IF Contains(resp.err, "BucketAlreadyExists")
       THEN Result(calls, <<"Vector bucket already exists">>, None, FALSE)
       ELSE Result(calls, <<"Error creating bucket">>, None, FALSE)

create_vector_index(bucket_name, remote, up) ==
    LET req == [vectorBucketName |-> bucket_name, indexName |-> INDEX_NAME,
                dimension |-> Dimension, dataType |-> "float32",
                distanceMetric |-> "cosine"]
        resp == create_index(req, remote, up)
        calls == <<Call("create_index", req, resp)>>
    IN IF resp.ok
       THEN Result(calls, <<"Created vector index", "Index ARN">>, None, FALSE)
       ELSE IF Contains(resp.err, "IndexAlreadyExists")
       THEN Result(calls, <<"Vector index already exists">>, None, FALSE)
       ELSE Result(calls, <<"Error creating index">>, None, FALSE)

\* The remote state after the successful calls among `calls`.
RECURSIVE After(_, _)
After(remote, calls) ==
    IF calls = <<>> THEN remote
    ELSE LET c == Head(calls)
             next ==
               IF ~c.resp.ok THEN remote
               ELSE IF c.op = "create_vector_bucket" THEN [remote EXCEPT !.bucket = TRUE]
               ELSE IF c.op = "create_index" THEN [remote EXCEPT !.index = TRUE]
               ELSE IF c.op = "put_vectors"
               THEN [remote EXCEPT !.store =
                       [k \in Ids |->
                          IF \E i \in 1..Len(c.req.vectors) : c.req.vectors[i].key = k
                          THEN LET i == CHOOSE i \in 1..Len(c.req.vectors) :
                                          /\ c.req.vectors[i].key = k
                                          /\ \A j \in (i+1)..Len(c.req.vectors) :
                                                c.req.vectors[j].key # k
                               IN [data |-> c.req.vectors[i].data,
                                   metadata |-> c.req.vectors[i].metadata]
                          ELSE remote.store[k]]]
               ELSE remote
         IN After(next, Tail(calls))

\* self.bucket_name = bucket_name or VECTOR_BUCKET_NAME
ResolveBucketName(bucket_name) ==
    IF bucket_name # NoName THEN bucket_name ELSE VECTOR_BUCKET_NAME

\* __init__: the two creation calls, one after the other.
S3VectorsQuery_init(bucket_name, remote, upBucket, upIndex) ==
    LET name == ResolveBucketName(bucket_name)
        b == create_s3vectors_bucket(name, remote, upBucket)
    IN IF b.raised THEN b
       ELSE LET i == create_vector_index(name, After(remote, b.calls), upIndex)
            IN Result(b.calls \o i.calls, b.log \o i.log, None, i.raised)

\* As get_embedding, but a failed invoke_model call is tried a second time.
get_embedding_retrying(text, up) ==
    LET req == [modelId |-> EMBEDDING_MODEL, inputText |-> text,
                contentType |-> "application/json"]
        resp == invoke_model(req, up)
        once == <<Call("invoke_model", req, resp)>>
    IN [calls |-> IF resp.ok THEN once ELSE once \o once,
        raised |-> ~resp.ok,
        value |-> IF resp.ok THEN resp.body.embedding ELSE None]

\* get_embedding: one invoke_model call; any failure of it (endpoint unreachable,
\* malformed JSON, no 'embedding' field) leaves as an exception.
get_embedding(text, up) ==
    LET req == [modelId |-> EMBEDDING_MODEL, inputText |-> text,
                contentType |-> "application/json"]
        resp == invoke_model(req, up)
    IN [calls |-> <<Call("invoke_model", req, resp)>>,
        raised |-> ~resp.ok,
        value |-> IF resp.ok THEN resp.body.embedding ELSE None]

\* The loop of insert_vectors from product k on; ups[n] tells whether the n-th
\* embedding call of this invocation succeeds.
RECURSIVE insert_loop(_, _, _, _)
insert_loop(products, ups, k, acc) ==
    IF k > Len(products) THEN acc
    ELSE LET product == products[k]
             e == get_embedding(product.text, ups[k])
         IN IF e.raised
            THEN [acc EXCEPT !.calls = @ \o e.calls, !.raised = TRUE]
            ELSE LET vector_data == [key |-> product.id,
                                     data |-> [float32 |-> e.value],
                                     metadata |-> product.metadata]
                 IN insert_loop(products, ups, k + 1,
                        [acc EXCEPT !.calls = @ \o e.calls,
                                    !.log = Append(@, product.id),
                                    !.batch = Append(@, vector_data)])

\* As insert_vectors, but each record is put at the front of the batch.
insert_vectors_prepending(products, ups) ==
    LET r == insert_loop(products, ups, 1, Result(<<>>, <<>>, None, FALSE))
    IN [r EXCEPT !.batch = Reverse(@)]

\* insert_vectors: the loop, then the bare `return`; the put_vectors call written
\* after that return is never reached.
insert_vectors(products, ups) ==
    insert_loop(products, ups, 1, Result(<<>>, <<>>, None, FALSE))

\* As get_vectors_by_ids, but without the exception handler.
get_vectors_by_ids_unhandled(ids, bucket, remote, up) ==
    LET req == [vectorBucketName |-> bucket, indexName |-> INDEX_NAME, keys |-> ids]
        resp == get_vectors(req, remote, up)
        calls == <<Call("get_vectors", req, resp)>>
    IN IF resp.ok
       THEN Result(calls,
                   <<"Retrieved vectors">>
                     \o [i \in 1..Len(resp.body.vectors) |-> resp.body.vectors[i].key],
                   None, FALSE)
       ELSE Result(calls, <<>>, None, TRUE)

get_vectors_by_ids(ids, bucket, remote, up) ==
    LET req == [vectorBucketName |-> bucket, indexName |-> INDEX_NAME, keys |-> ids]
        resp == get_vectors(req, remote, up)
        calls == <<Call("get_vectors", req, resp)>>
    IN IF resp.ok
       THEN Result(calls,
                   <<"Retrieved vectors">>
                     \o [i \in 1..Len(resp.body.vectors) |-> resp.body.vectors[i].key],
                   None, FALSE)
       ELSE Result(calls, <<"Error getting vectors by ids">>, None, FALSE)

get_list_of_vectors(max_results, bucket, remote, up, order) ==
    LET req == [vectorBucketName |-> bucket, indexName |-> INDEX_NAME,
                maxResults |-> max_results]
        resp == list_vectors(req, remote, up, order)
        calls == <<Call("list_vectors", req, resp)>>
    IN IF resp.ok
       THEN Result(calls,
                   <<"Found vectors in index">>
                     \o [i \in 1..Len(resp.body.vectors) |-> resp.body.vectors[i].key],
                   None, FALSE)
       ELSE Result(calls, <<"Error getting list of vectors">>, None, FALSE)

update_vector_by_id(id, update_text, update_metadata, bucket, remote, upEmbed, upPut) ==
    LET e == get_embedding(update_text, upEmbed)
    IN IF e.raised
       THEN Result(e.calls, <<"Error updating vector by id">>, None, FALSE)
       ELSE LET updated_vector == [key |-> id, data |-> [float32 |-> e.value],
                                   metadata |-> update_metadata]
                req == [vectorBucketName |-> bucket, indexName |-> INDEX_NAME,
                        vectors |-> <<updated_vector>>]
                resp == put_vectors(req, remote, upPut)
                calls == e.calls \o <<Call("put_vectors", req, resp)>>
            IN IF resp.ok
               THEN Result(calls, <<"Updated vector">>, None, FALSE)
               ELSE Result(calls, <<"Error updating vector by id">>, None, FALSE)

\* As query, but the matches are returned farthest first.
query_resorting(text, top_k, filters, bucket, remote, upEmbed, upQuery, order) ==
    LET e == get_embedding(text, upEmbed)
    IN IF e.raised THEN Result(e.calls, <<>>, None, TRUE)
       ELSE LET params == [vectorBucketName |-> bucket, indexName |-> INDEX_NAME,
                           queryVector |-> [float32 |-> e.value], topK |-> top_k,
                           returnMetadata |-> TRUE, returnDistance |-> TRUE]
                query_params == IF Truthy(filters)
                                THEN params @@ [filter |-> filters]
                                ELSE params
                resp == query_vectors(query_params, remote, upQuery, order)
                calls == e.calls \o <<Call("query_vectors", query_params, resp)>>
            IN IF resp.ok
               THEN Result(calls, <<>>, List(Reverse(resp.body.vectors)), FALSE)
               ELSE Result(calls, <<"Error querying vectors">>, List(<<>>), FALSE)

\* As query, but without the exception handler around query_vectors.
query_unhandled(text, top_k, filters, bucket, remote, upEmbed, upQuery, order) ==
    LET e == get_embedding(text, upEmbed)
    IN IF e.raised THEN Result(e.calls, <<>>, None, TRUE)
       ELSE LET params == [vectorBucketName |-> bucket, indexName |-> INDEX_NAME,
                           queryVector |-> [float32 |-> e.value], topK |-> top_k,
                           returnMetadata |-> TRUE, returnDistance |-> TRUE]
                query_params == IF Truthy(filters)
                                THEN params @@ [filter |-> filters]
                                ELSE params
                resp == query_vectors(query_params, remote, upQuery, order)
                calls == e.calls \o <<Call("query_vectors", query_params, resp)>>
            IN IF resp.ok
               THEN Result(calls, <<>>, List(resp.body.vectors), FALSE)
               ELSE Result(calls, <<>>, None, TRUE)

query(text, top_k, filters, bucket, remote, upEmbed, upQuery, order) ==
    LET e == get_embedding(text, upEmbed)
    IN IF e.raised THEN Result(e.calls, <<>>, None, TRUE)
       ELSE LET params == [vectorBucketName |-> bucket, indexName |-> INDEX_NAME,
                           queryVector |-> [float32 |-> e.value], topK |-> top_k,
                           returnMetadata |-> TRUE, returnDistance |-> TRUE]
                query_params == IF Truthy(filters)
                                THEN params @@ [filter |-> filters]
                                ELSE params
                resp == query_vectors(query_params, remote, upQuery, order)
                calls == e.calls \o <<Call("query_vectors", query_params, resp)>>
            IN IF resp.ok
               THEN Result(calls, <<>>, List(resp.body.vectors), FALSE)
               ELSE Result(calls, <<"Error querying vectors">>, List(<<>>), FALSE)

\* One of the three numbered sections of query_advanced_filtering: a query, then
\* one printed line per result, appended to what the sections before it did.
advanced_section(acc, text, filters, bucket, remote, upEmbed, upQuery, order) ==
    IF acc.raised THEN acc
    ELSE LET q == query(text, 5, filters, bucket, remote, upEmbed, upQuery, order)
         IN IF q.raised
            THEN Result(acc.calls \o q.calls, acc.log \o q.log, None, TRUE)
            ELSE Result(acc.calls \o q.calls,
                        acc.log \o q.log
                          \o [i \in 1..Len(q.ret.items) |-> q.ret.items[i].key],
                        None, FALSE)

\* query_advanced_filtering ignores its arguments and runs three fixed queries.
query_advanced_filtering(bucket, remote, upEmbed, upQuery, order) ==
    LET s0 == Result(<<>>, <<"=== Advanced Filtering ===">>, None, FALSE)
        s1 == advanced_section(s0, "premium product", multi_category_filter,
                               bucket, remote, upEmbed[1], upQuery[1], order)
        s2 == advanced_section(s1, "quality product", not_low_price_filter,
                               bucket, remote, upEmbed[2], upQuery[2], order)
    IN advanced_section(s2, "technology device", complex_filter,
                        bucket, remote, upEmbed[3], upQuery[3], order)

(* ------------------------------ the system ------------------------------ *)

VARIABLES
    clients,      \* number of S3VectorsQuery objects constructed so far
    bucket_name,  \* self.bucket_name of the client in use
    remote,       \* the storage service: bucket and index exist, stored records
    last          \* the most recent method call: name, arguments, Result

vars == <<clients, bucket_name, remote, last>>

Init ==
    /\ clients = 0
    /\ bucket_name = NoName
    /\ remote \in {[bucket |-> b, index |-> i, store |-> [k \in Ids |-> None]] :
                     b \in BOOLEAN, i \in BOOLEAN}
    /\ remote.index => remote.bucket
    /\ last = [op |-> "", in |-> None, out |-> Result(<<>>, <<>>, None, FALSE)]

\* The keys the storage service holds.
StoredKeys == {k \in Ids : remote.store[k] # None}

\* What the environment can do to one storage call that reads a ranking: fail
\* it, or answer with some of the stored records in some order.
Rankings == {[up |-> FALSE, order |-> <<>>]}
              \cup {[up |-> TRUE, order |-> o] : o \in DistinctSeqs(StoredKeys)}

\* ups for n embedding calls of which the one numbered `failing` fails (none
\* when failing = 0); calls after a failing one are not distinguished.
AllBut(n, failing) == [k \in 1..n |-> k # failing]

\* A method call recorded as the most recent one.
Invocation(op, in, r) == [op |-> op, in |-> in, out |-> r]

Construct ==
    /\ clients < MaxClients
    /\ \E arg \in BucketArgs, upBucket \in BOOLEAN, upIndex \in BOOLEAN :
         LET r == S3VectorsQuery_init(arg, remote, upBucket, upIndex)
         IN /\ last' = [op |-> "__init__", in |-> [bucket_name |-> arg],
                        out |-> r]
            /\ remote' = After(remote, r.calls)
            /\ IF r.raised
               THEN UNCHANGED <<clients, bucket_name>>
               ELSE /\ clients' = clients + 1
                    /\ bucket_name' = ResolveBucketName(arg)

Insert ==
    /\ clients > 0
    /\ \E products \in SeqUpTo(Products, MaxProducts) :
         \E failing \in 0..Len(products) :
            LET r == insert_vectors(products, AllBut(Len(products), failing))
            IN /\ last' = Invocation("insert_vectors", [products |-> products], r)
               /\ remote' = After(remote, r.calls)
    /\ UNCHANGED <<clients, bucket_name>>

GetByIds ==
    /\ clients > 0
    /\ \E ids \in SeqUpTo(Ids, MaxKeys), up \in BOOLEAN :
         LET r == get_vectors_by_ids(ids, bucket_name, remote, up)
         IN /\ last' = Invocation("get_vectors_by_ids", [ids |-> ids], r)
            /\ remote' = After(remote, r.calls)
    /\ UNCHANGED <<clients, bucket_name>>

ListVectors ==
    /\ clients > 0
    /\ \E max_results \in 1..MaxTopK, env \in Rankings :
         LET r == get_list_of_vectors(max_results, bucket_name, remote,
                                      env.up, env.order)
         IN /\ last' = Invocation("get_list_of_vectors",
                                  [max_results |-> max_results], r)
            /\ remote' = After(remote, r.calls)
    /\ UNCHANGED <<clients, bucket_name>>

Update ==
    /\ clients > 0
    /\ \E id \in Ids, text \in UpdateTexts, metadata \in Metas,
          upEmbed \in BOOLEAN, upPut \in BOOLEAN :
         LET r == update_vector_by_id(id, text, metadata, bucket_name, remote,
                                      upEmbed, upPut)
         IN /\ last' = Invocation("update_vector_by_id",
                                  [id |-> id, update_text |-> text,
                                   update_metadata |-> metadata], r)
            /\ remote' = After(remote, r.calls)
    /\ UNCHANGED <<clients, bucket_name>>

Query ==
    /\ clients > 0
    /\ \E text \in QueryTexts, top_k \in 1..MaxTopK, filters \in Filters,
          upEmbed \in BOOLEAN, env \in Rankings :
         LET r == query(text, top_k, filters, bucket_name, remote,
                        upEmbed, env.up, env.order)
         IN /\ last' = Invocation("query",
                                  [query |-> text, top_k |-> top_k,
                                   filters |-> filters], r)
            /\ remote' = After(remote, r.calls)
    /\ UNCHANGED <<clients, bucket_name>>

QueryAdvancedFiltering ==
    /\ clients > 0
    /\ \E failing \in 0..3, upQuery \in [1..3 -> BOOLEAN],
          order \in DistinctSeqs(StoredKeys) :
         LET r == query_advanced_filtering(bucket_name, remote, AllBut(3, failing),
                                           upQuery, order)
         IN /\ last' = Invocation("query_advanced_filtering", None, r)
            /\ remote' = After(remote, r.calls)
    /\ UNCHANGED <<clients, bucket_name>>

Next ==
    \/ Construct
    \/ Insert
    \/ GetByIds
    \/ ListVectors
    \/ Update
    \/ Query
    \/ QueryAdvancedFiltering

Spec == Init /\ [][Next]_vars

(* ----------------------------- properties ------------------------------ *)

\* The calls and the arguments of the most recent method call.
calls == last.out.calls
NCalls == Len(last.out.calls)
\* The positions of the calls of one remote operation.
CallsTo(op) == {k \in 1..NCalls : calls[k].op = op}

\* C1: insert_vectors with n > 0 records, when it returns normally, has made
\* exactly n embedding calls followed by exactly one put_vectors call that
\* carries the accumulated batch.
C1_InsertSubmitsBatchOnce ==
    (last.op = "insert_vectors" /\ Len(last.in.products) > 0 /\ ~last.out.raised)
    => LET n == Len(last.in.products)
       IN /\ NCalls = n + 1
          /\ CallsTo("invoke_model") = 1..n
          /\ CallsTo("put_vectors") = {n + 1}
          /\ calls[n + 1].req.vectors = last.out.batch

C3_QueryFailureGivesEmptyList ==
    (last.op = "query" /\ \E k \in CallsTo("query_vectors") : ~calls[k].resp.ok)
    => /\ ~last.out.raised
       /\ last.out.ret = List(<<>>)
       /\ last.out.log = <<"Error querying vectors">>

\* A query whose query_vectors call failed.
C3_Witness ==
    /\ last.op = "query"
    /\ NCalls = 2
    /\ calls[2].op = "query_vectors"
    /\ ~calls[2].resp.ok

\* C4: the query_vectors request of query has a filter field exactly when the
\* caller passed a filter (anything but None), and then it is the caller's tree.
C4_FilterSentIffPassed ==
    last.op = "query"
    => \A k \in CallsTo("query_vectors") :
          /\ ("filter" \in DOMAIN calls[k].req) <=> (last.in.filters # None)
          /\ last.in.filters # None
             => ("filter" \in DOMAIN calls[k].req /\ calls[k].req.filter = last.in.filters)

\* A filter tree holds a combinator entry without children, at any depth.
RECURSIVE HasChildlessCombinator(_)
HasChildlessCombinator(d) ==
    /\ d.kind = "dict"
    /\ \E i \in 1..Len(d.entries) :
          LET e == d.entries[i]
          IN /\ e.key \in {"$and", "$or"}
             /\ \/ Len(e.children) = 0
                \/ \E j \in 1..Len(e.children) : HasChildlessCombinator(e.children[j])

\* C5: no query_vectors request carries a filter with a childless combinator,
\* and a call of query with such a filter ends in an error.
C5_ChildlessCombinatorRejected ==
    /\ \A k \in CallsTo("query_vectors") :
          "filter" \in DOMAIN calls[k].req => ~HasChildlessCombinator(calls[k].req.filter)
    /\ (last.op = "query" /\ HasChildlessCombinator(last.in.filters))
       => last.out.raised

\* An "already exists" answer, and any other failure, of a creation call.
AlreadyExists(c) ==
    /\ ~c.resp.ok
    /\ \/ Contains(c.resp.err, "BucketAlreadyExists")
       \/ Contains(c.resp.err, "IndexAlreadyExists")
OtherFailure(c) == ~c.resp.ok /\ ~AlreadyExists(c)
Printed(line) == \E i \in 1..Len(last.out.log) : last.out.log[i] = line

\* C6: constructing a client issues create_vector_bucket and then create_index,
\* both for the client's bucket, whatever the first one answered; an "already
\* exists" answer is printed as such and not as an error, any other failure is
\* printed as an error, and the construction never raises.
C6_CreationIsIdempotentAndNonHalting ==
    last.op = "__init__"
    => /\ ~last.out.raised
       /\ clients >= 1
       /\ NCalls = 2
       /\ calls[1].op = "create_vector_bucket"
       /\ calls[2].op = "create_index"
       /\ calls[1].req.vectorBucketName = bucket_name
       /\ calls[2].req.vectorBucketName = bucket_name
       /\ calls[2].req.indexName = INDEX_NAME
       /\ Printed("Error creating bucket") <=> OtherFailure(calls[1])
       /\ Printed("Error creating index") <=> OtherFailure(calls[2])
       /\ Printed("Vector bucket already exists") <=> AlreadyExists(calls[1])
       /\ Printed("Vector index already exists") <=> AlreadyExists(calls[2])
       /\ Printed("Created vector bucket") <=> calls[1].resp.ok
       /\ Printed("Created vector index") <=> calls[2].resp.ok
       /\ (~OtherFailure(calls[1]) /\ ~OtherFailure(calls[2]))
          => (remote.bucket /\ remote.index)

\* A second client constructed over the bucket and index that exist already.
C6_Witness ==
    /\ last.op = "__init__"
    /\ clients = 2
    /\ AlreadyExists(calls[1])
    /\ AlreadyExists(calls[2])
    /\ last.out.log = <<"Vector bucket already exists", "Vector index already exists">>

\* C7: when update_vector_by_id(id, text, metadata) has had its write accepted
\* and get_vectors_by_ids with id among its ids follows and its read succeeds,
\* the read returns a record for id that carries that metadata.
C7_UpdateThenGetReturnsNewMetadata ==
    [][(/\ last.op = "update_vector_by_id"
        /\ \E k \in CallsTo("put_vectors") : calls[k].resp.ok
        /\ last'.op = "get_vectors_by_ids"
        /\ \E i \in 1..Len(last'.in.ids) : last'.in.ids[i] = last.in.id
        /\ last'.out.calls[1].resp.ok)
       => /\ last'.out.ret.kind = "list"
          /\ \E i \in 1..Len(last'.out.ret.items) :
                /\ last'.out.ret.items[i].key = last.in.id
                /\ last'.out.ret.items[i].metadata = last.in.update_metadata]_vars

Readers == {"get_vectors_by_ids", "get_list_of_vectors"}
ReaderCall == IF last.op = "get_vectors_by_ids" THEN "get_vectors" ELSE "list_vectors"
ReaderError ==
    IF last.op = "get_vectors_by_ids" THEN "Error getting vectors by ids"
    ELSE "Error getting list of vectors"

C9_InsertEmbedsInOrderThenBatches ==
    last.op = "insert_vectors"
    => LET products == last.in.products
           batch == last.out.batch
       IN /\ \A k \in CallsTo("invoke_model") :
                /\ k <= Len(products)
                /\ calls[k].req.inputText = products[k].text
                /\ \A j \in 1..(k - 1) : calls[j].op = "invoke_model" /\ calls[j].resp.ok
          /\ \A w \in CallsTo("put_vectors") :
                CallsTo("invoke_model") = 1..Len(products) /\ w > Len(products)
          /\ Len(batch) = Cardinality({k \in CallsTo("invoke_model") : calls[k].resp.ok})
          /\ \A i \in 1..Len(batch) :
                /\ batch[i].key = products[i].id
                /\ batch[i].data = [float32 |-> calls[i].resp.body.embedding]
                /\ batch[i].metadata = products[i].metadata
          /\ ~last.out.raised
             => /\ Len(batch) = Len(products)
                /\ CallsTo("invoke_model") = 1..Len(products)

\* An insert of two different records, the second sample product first.
C9_Witness ==
    /\ last.op = "insert_vectors"
    /\ ~last.out.raised
    /\ last.in.products = <<Product2, Product1>>
    /\ Len(last.out.batch) = 2

\* A failed embedding call of the most recent method call.
EmbeddingFailed == \E k \in CallsTo("invoke_model") : ~calls[k].resp.ok

\* C10: a failed embedding call is the last call of its method call and is not
\* repeated; out of query and insert_vectors it leaves as an exception and no
\* value is returned; update_vector_by_id prints an error, makes no put_vectors
\* call and returns normally.
C10_EmbeddingFailureHandling ==
    EmbeddingFailed
    => /\ \A k \in CallsTo("invoke_model") : ~calls[k].resp.ok => k = NCalls
       /\ last.op \in {"query", "insert_vectors"}
          => /\ last.out.raised
             /\ last.out.ret = None
             /\ CallsTo("put_vectors") = {} /\ CallsTo("query_vectors") = {}
       /\ last.op = "update_vector_by_id"
          => /\ ~last.out.raised
             /\ CallsTo("put_vectors") = {}
             /\ NCalls = 1
             /\ last.out.log = <<"Error updating vector by id">>
             /\ last.out.ret = None

\* A query whose embedding call failed.
C10_Witness ==
    /\ last.op = "query"
    /\ NCalls = 1
    /\ ~calls[1].resp.ok
    /\ last.out.raised
====
